---- MODULE Spec2Model ----
(***************************************************************************)
(* Model of pythrun-test.py: main() writes four timed sets of output to    *)
(* sys.stdout and sys.stderr and ends with sys.exit(42).                   *)
(*                                                                         *)
(* One action per statement of main().  pc names the source line of the    *)
(* statement that runs next; when the process terminates, pc stays on the  *)
(* line that ended it (the line a traceback would name, or line 36).       *)
(*                                                                         *)
(* The two streams are Python text streams over a file descriptor:         *)
(*   "line"       line-buffered   (stdout on a terminal; stderr always)    *)
(*   "block"      block-buffered  (stdout on a pipe or a file)             *)
(*   "unbuffered" python -u / PYTHONUNBUFFERED                             *)
(* The reader of a stream may close it at any moment; a write that reaches *)
(* a closed descriptor raises BrokenPipeError, which main() never catches. *)
(***************************************************************************)
EXTENDS Integers, Sequences, FiniteSets, TLC

VARIABLES
    pc,       \* source line of the next statement ("L6" .. "L36")
    i,        \* the loop variable i of lines 7, 13 and 19
    k,        \* position of the loop variable char in the string of line 26 / 30
    trace,    \* the calls main() has made so far, in program order
    buf,      \* buf[ch]: what ch holds in its buffer, not yet given to the reader
    arrived,  \* the chunks the reader has received, in arrival order
    open,     \* open[ch]: the reader still holds the other end of ch
    mode,     \* mode[ch]: buffering of ch, fixed at interpreter start
    exited,   \* the process has terminated
    status    \* its exit status (meaningful once exited)

vars == <<pc, i, k, trace, buf, arrived, open, mode, exited, status>>

Channels == {"stdout", "stderr"}

StdoutModes == {"line", "block", "unbuffered"}

StderrModes == {"line", "unbuffered"}

-----------------------------------------------------------------------------
(* The literals of main() *)

Header1 == "Expected: 5 lines of stdout - 1st set"

Header2 == "Expected: 5 lines of stderr - 2nd set"

Header3 == "Expected: 5 interleaved lines of stdout and stderr - 3rd set"

Header4 == "Expected: Character by character output with pauses - 4th set"

StdoutChars ==
    << "s", "t", "d", "o", "u", "t", ":", " ",
       "C", "h", "a", "r", "a", "c", "t", "e", "r", " ",
       "o", "u", "t", "p", "u", "t", "\n" >>

StderrChars ==
    << "s", "t", "d", "e", "r", "r", ":", " ",
       "C", "h", "a", "r", "a", "c", "t", "e", "r", " ",
       "o", "u", "t", "p", "u", "t", "\n" >>

ExitMessage == "Exiting with code 42"

Digit == << "0", "1", "2", "3", "4", "5", "6", "7", "8", "9" >>

\* Faulty variant of Str: counts from zero
Str_FromZero(n) == Digit[n]

\* {i} in an f-string: the decimal digits of i, most significant first
RECURSIVE Str(_)
Str(n) == IF n < 10 THEN Digit[n + 1] ELSE Str(n \div 10) \o Digit[(n % 10) + 1]

StdoutLine(n) == "stdout: Line " \o Str(n)

StderrLine(n) == "stderr: Line " \o Str(n)

StdoutInterleaved(n) == "stdout: Interleaved Line " \o Str(n)

StderrInterleaved(n) == "stderr: Interleaved Line " \o Str(n)

-----------------------------------------------------------------------------
(* The calls main() makes, as recorded in trace *)

PrintEv(ch, text) == [op |-> "print", ch |-> ch, text |-> text, ms |-> 0]

WriteEv(ch, text) == [op |-> "write", ch |-> ch, text |-> text, ms |-> 0]

FlushEv(ch) == [op |-> "flush", ch |-> ch, text |-> "", ms |-> 0]

SleepEv(ms) == [op |-> "sleep", ch |-> "", text |-> "", ms |-> ms]

-----------------------------------------------------------------------------
(* Text streams.  An io value is [buf, arrived, err]: the buffers, what    *)
(* the reader has received, and whether BrokenPipeError has been raised.   *)

BufferSize == 8 * 1024

RECURSIVE Bytes(_)
Bytes(items) == IF items = <<>> THEN 0 ELSE Len(Head(items)) + Bytes(Tail(items))

\* No literal of main() has a newline inside it: a written string has one
\* exactly when it ends with one.
HasNewline(s, end) == end = "\n" \/ s = "\n"

\* Faulty variant of OSWrite: output for a closed descriptor is dropped
OSWrite_Dropping(io, ch) ==
    IF io.buf[ch] = <<>> THEN io
    ELSE IF open[ch]
         THEN [io EXCEPT !.arrived = Append(@, [ch |-> ch, data |-> io.buf[ch]]),
                         !.buf[ch] = <<>>]
         ELSE [io EXCEPT !.buf[ch] = <<>>]

\* Hand the buffer of ch to the file descriptor.
OSWrite(io, ch) ==
    IF io.buf[ch] = <<>> THEN io
    ELSE IF open[ch]
         THEN [io EXCEPT !.arrived = Append(@, [ch |-> ch, data |-> io.buf[ch]]),
                         !.buf[ch] = <<>>]
         ELSE [io EXCEPT !.err = TRUE]

\* file.write(s \o end) on ch
FileWrite(io, ch, s, end) ==
    IF mode[ch] = "unbuffered"
    THEN IF open[ch]
         THEN [io EXCEPT !.arrived = Append(@, [ch |-> ch, data |-> <<s \o end>>])]
         ELSE [io EXCEPT !.err = TRUE]
    ELSE LET room == IF Bytes(io.buf[ch]) + Len(s \o end) > BufferSize
                     THEN OSWrite(io, ch) ELSE io
             held == [room EXCEPT !.buf[ch] = Append(@, s \o end)]
         IN  IF room.err THEN room
             ELSE IF mode[ch] = "line" /\ HasNewline(s, end)
                  THEN OSWrite(held, ch)
                  ELSE held

\* print(text, file=ch): text followed by end="\n"
PrintLine(io, ch, text) == FileWrite(io, ch, text, "\n")

\* Faulty variant of Flush: does nothing
Flush_Nothing(io, ch) == io

\* ch.flush()
Flush(io, ch) == OSWrite(io, ch)

\* The interpreter reports an uncaught exception on stderr; a failure to
\* write the report is ignored.
Traceback == "Traceback (most recent call last): BrokenPipeError\n"

Report(io) ==
    LET r == FileWrite([io EXCEPT !.err = FALSE], "stderr", Traceback, "")
    IN  [r EXCEPT !.err = FALSE]

\* Interpreter shutdown flushes stdout, then stderr; if either flush fails
\* the exit status becomes 120.
Finalize(io, base) ==
    LET o == Flush([io EXCEPT !.err = FALSE], "stdout")
        e == Flush([o EXCEPT !.err = FALSE], "stderr")
    IN  [buf |-> e.buf, arrived |-> e.arrived,
         status |-> IF o.err \/ e.err THEN 120 ELSE base]

\* The process ends: with an uncaught BrokenPipeError (status 1) or by
\* sys.exit(code).
Terminate(io, uncaught, code) ==
    LET fin == IF uncaught THEN Finalize(Report(io), 1) ELSE Finalize(io, code)
    IN  /\ buf' = fin.buf
        /\ arrived' = fin.arrived
        /\ exited' = TRUE
        /\ status' = fin.status

IO == [buf |-> buf, arrived |-> arrived, err |-> FALSE]

\* A statement that made the call ev and left the streams as io: it raises,
\* or control moves to line next with loop variables ni and nk.
Done(ev, io, next, ni, nk) ==
    /\ trace' = Append(trace, ev)
    /\ IF io.err
       THEN /\ Terminate(io, TRUE, 1)
            /\ UNCHANGED <<pc, i, k>>
       ELSE /\ buf' = io.buf
            /\ arrived' = io.arrived
            /\ pc' = next
            /\ i' = ni
            /\ k' = nk
            /\ UNCHANGED <<exited, status>>
    /\ UNCHANGED <<open, mode>>

\* time.sleep(ms / 1000): nothing but time passes
Sleep(ms, next, ni, nk) ==
    /\ trace' = Append(trace, SleepEv(ms))
    /\ pc' = next
    /\ i' = ni
    /\ k' = nk
    /\ UNCHANGED <<buf, arrived, open, mode, exited, status>>

At(line) == ~exited /\ pc = line

-----------------------------------------------------------------------------
(* First set: lines 6-9 *)

PrintHeader1 ==
    /\ At("L6")
    /\ Done(PrintEv("stdout", Header1), PrintLine(IO, "stdout", Header1), "L8", 1, k)

PrintStdoutLine ==
    /\ At("L8")
    /\ Done(PrintEv("stdout", StdoutLine(i)), PrintLine(IO, "stdout", StdoutLine(i)),
            "L9", i, k)

\* Faulty variant of SleepStdoutLine: range(1, 5)
SleepStdoutLine_Short ==
    /\ At("L9")
    /\ IF i + 1 < 5 THEN Sleep(200, "L8", i + 1, k) ELSE Sleep(200, "L12", i, k)

SleepStdoutLine ==
    /\ At("L9")
    /\ IF i + 1 < 6 THEN Sleep(200, "L8", i + 1, k) ELSE Sleep(200, "L12", i, k)

(* Second set: lines 12-15 *)

PrintHeader2 ==
    /\ At("L12")
    /\ Done(PrintEv("stderr", Header2), PrintLine(IO, "stderr", Header2), "L14", 1, k)

PrintStderrLine ==
    /\ At("L14")
    /\ Done(PrintEv("stderr", StderrLine(i)), PrintLine(IO, "stderr", StderrLine(i)),
            "L15", i, k)

\* Faulty variant of SleepStderrLine: the third set is left out
SleepStderrLine_SkipsThirdSet ==
    /\ At("L15")
    /\ IF i + 1 < 6 THEN Sleep(200, "L14", i + 1, k) ELSE Sleep(200, "L25", i, k)

SleepStderrLine ==
    /\ At("L15")
    /\ IF i + 1 < 6 THEN Sleep(200, "L14", i + 1, k) ELSE Sleep(200, "L18", i, k)

(* Third set: lines 18-22 *)

PrintHeader3 ==
    /\ At("L18")
    /\ Done(PrintEv("stdout", Header3), PrintLine(IO, "stdout", Header3), "L20", 1, k)

\* Faulty variant of PrintStdoutInterleaved: pauses before the stderr line
PrintStdoutInterleaved_ThenPause ==
    /\ At("L20")
    /\ Done(PrintEv("stdout", StdoutInterleaved(i)),
            PrintLine(IO, "stdout", StdoutInterleaved(i)), "L22", i, k)

PrintStdoutInterleaved ==
    /\ At("L20")
    /\ Done(PrintEv("stdout", StdoutInterleaved(i)),
            PrintLine(IO, "stdout", StdoutInterleaved(i)), "L21", i, k)

\* Faulty variant of PrintStderrInterleaved: file=sys.stderr is missing
PrintStderrInterleaved_ToStdout ==
    /\ At("L21")
    /\ Done(PrintEv("stdout", StderrInterleaved(i)),
            PrintLine(IO, "stdout", StderrInterleaved(i)), "L22", i, k)

PrintStderrInterleaved ==
    /\ At("L21")
    /\ Done(PrintEv("stderr", StderrInterleaved(i)),
            PrintLine(IO, "stderr", StderrInterleaved(i)), "L22", i, k)

\* Faulty variant of SleepInterleaved: sleeps 0.2 s as the first two sets do
SleepInterleaved_Long ==
    /\ At("L22")
    /\ IF i + 1 < 6 THEN Sleep(200, "L20", i + 1, k) ELSE Sleep(200, "L25", i, k)

SleepInterleaved ==
    /\ At("L22")
    /\ IF i + 1 < 6 THEN Sleep(100, "L20", i + 1, k) ELSE Sleep(100, "L25", i, k)

(* Fourth set: lines 25-33 *)

PrintHeader4 ==
    /\ At("L25")
    /\ Done(PrintEv("stdout", Header4), PrintLine(IO, "stdout", Header4), "L27", i, 1)

WriteStdoutChar ==
    /\ At("L27")
    /\ Done(WriteEv("stdout", StdoutChars[k]),
            FileWrite(IO, "stdout", StdoutChars[k], ""), "L28", i, k)

FlushStdout ==
    /\ At("L28")
    /\ Done(FlushEv("stdout"), Flush(IO, "stdout"), "L29", i, k)

SleepStdoutChar ==
    /\ At("L29")
    /\ IF k < Len(StdoutChars) THEN Sleep(50, "L27", i, k + 1)
                               ELSE Sleep(50, "L31", i, 1)

WriteStderrChar ==
    /\ At("L31")
    /\ Done(WriteEv("stderr", StderrChars[k]),
            FileWrite(IO, "stderr", StderrChars[k], ""), "L32", i, k)

FlushStderr ==
    /\ At("L32")
    /\ Done(FlushEv("stderr"), Flush(IO, "stderr"), "L33", i, k)

SleepStderrChar ==
    /\ At("L33")
    /\ IF k < Len(StderrChars) THEN Sleep(50, "L31", i, k + 1)
                               ELSE Sleep(50, "L35", i, k)

(* Lines 35-36 *)

PrintExitMessage ==
    /\ At("L35")
    /\ Done(PrintEv("stdout", ExitMessage), PrintLine(IO, "stdout", ExitMessage),
            "L36", i, k)

\* Faulty variant of SysExit: sys.exit() without a code
SysExit_NoCode ==
    /\ At("L36")
    /\ Terminate(IO, FALSE, 0)
    /\ UNCHANGED <<pc, i, k, trace, open, mode>>

SysExit ==
    /\ At("L36")
    /\ Terminate(IO, FALSE, 42)
    /\ UNCHANGED <<pc, i, k, trace, open, mode>>

\* The reader of ch closes its end while the process runs.
ReaderCloses(ch) ==
    /\ ~exited
    /\ open[ch]
    /\ open' = [open EXCEPT ![ch] = FALSE]
    /\ UNCHANGED <<pc, i, k, trace, buf, arrived, mode, exited, status>>

-----------------------------------------------------------------------------

Init ==
    /\ pc = "L6"
    /\ i = 0
    /\ k = 0
    /\ trace = <<>>
    /\ buf = [ch \in Channels |-> <<>>]
    /\ arrived = <<>>
    /\ open = [ch \in Channels |-> TRUE]
    /\ mode \in {[stdout |-> o, stderr |-> e] : o \in StdoutModes, e \in StderrModes}
    /\ exited = FALSE
    /\ status = 0

Step ==
    \/ PrintHeader1
    \/ PrintStdoutLine
    \/ SleepStdoutLine
    \/ PrintHeader2
    \/ PrintStderrLine
    \/ SleepStderrLine
    \/ PrintHeader3
    \/ PrintStdoutInterleaved
    \/ PrintStderrInterleaved
    \/ SleepInterleaved
    \/ PrintHeader4
    \/ WriteStdoutChar
    \/ FlushStdout
    \/ SleepStdoutChar
    \/ WriteStderrChar
    \/ FlushStderr
    \/ SleepStderrChar
    \/ PrintExitMessage
    \/ SysExit

Next ==
    \/ Step
    \/ \E ch \in Channels : ReaderCloses(ch)

Spec == Init /\ [][Next]_vars

\* A running process is always scheduled again: a pause ends by itself.
FairSpec == Spec /\ WF_vars(Step)

-----------------------------------------------------------------------------
(* What the properties below speak about *)

AllOpen == open["stdout"] /\ open["stderr"]

IsPrefix(s, t) == Len(s) <= Len(t) /\ s = SubSeq(t, 1, Len(s))

\* The print and write calls main() has made on ch, in order
Calls(ch) == SelectSeq(trace, LAMBDA e : e.op \in {"print", "write"} /\ e.ch = ch)

\* ... and the text each of them was given
Texts(ch) == [j \in 1..Len(Calls(ch)) |-> Calls(ch)[j].text]

\* ... and the characters each of them put on the stream
Written(ch) ==
    [j \in 1..Len(Calls(ch)) |->
        IF Calls(ch)[j].op = "print" THEN Calls(ch)[j].text \o "\n"
                                     ELSE Calls(ch)[j].text]

\* The strings of the chunks lo..hi that arrived on ch, in arrival order
RECURSIVE Concat(_, _, _)
Concat(ch, lo, hi) ==
    IF lo > hi THEN <<>>
    ELSE IF lo = hi
         THEN (IF arrived[lo].ch = ch THEN arrived[lo].data ELSE <<>>)
         ELSE LET mid == (lo + hi) \div 2
              IN  Concat(ch, lo, mid) \o Concat(ch, mid + 1, hi)

\* What the reader of ch has received from main()
Delivered(ch) == SelectSeq(Concat(ch, 1, Len(arrived)), LAMBDA s : s # Traceback)

\* The single characters within a sequence of written strings
Singles(items) == SelectSeq(items, LAMBDA s : Len(s) = 1)

\* The chunk in which the string s arrived on ch (0: not arrived)
ArrivalOf(ch, s) ==
    LET at == {e \in 1..Len(arrived) :
                  /\ arrived[e].ch = ch
                  /\ \E j \in 1..Len(arrived[e].data) : arrived[e].data[j] = s}
    IN  IF at = {} THEN 0 ELSE CHOOSE e \in at : \A f \in at : e <= f

\* Newline-terminated lines main() has emitted on ch
LinesOn(ch) ==
    Cardinality({j \in 1..Len(Calls(ch)) :
                    Calls(ch)[j].op = "print" \/ Calls(ch)[j].text = "\n"})

\* Milliseconds slept in the calls lo..hi of trace
RECURSIVE SumMs(_, _)
SumMs(lo, hi) ==
    IF lo > hi THEN 0
    ELSE IF lo = hi THEN trace[lo].ms
         ELSE LET mid == (lo + hi) \div 2
              IN  SumMs(lo, mid) + SumMs(mid + 1, hi)

TotalSlept == SumMs(1, Len(trace))

Pauses(ms) == Cardinality({j \in 1..Len(trace) : trace[j] = SleepEv(ms)})

PhaseOf(line) ==
    CASE line \in {"L6", "L8", "L9"} -> 1
      [] line \in {"L12", "L14", "L15"} -> 2
      [] line \in {"L18", "L20", "L21", "L22"} -> 3
      [] line \in {"L25", "L27", "L28", "L29", "L31", "L32", "L33"} -> 4
      [] line \in {"L35", "L36"} -> 5

\* The line counter of the running phase: 0 until its loop has started
LineCounter ==
    IF pc \in {"L8", "L9", "L14", "L15", "L20", "L21", "L22"} THEN i ELSE 0

\* The character cursor of phase 4 over the two strings, one after the other
CharCursor ==
    CASE pc \in {"L27", "L28", "L29"} -> k
      [] pc \in {"L31", "L32", "L33"} -> Len(StdoutChars) + k
      [] pc \in {"L35", "L36"} -> Len(StdoutChars) + Len(StderrChars)
      [] OTHER -> 0

-----------------------------------------------------------------------------
\* C1: a run in which both streams are still open at the end exits with
\* status exactly 42, from line 36, and the last call main() made before it
\* was the write of "Exiting with code 42" to standard output.
C1_ExitStatus42 ==
    (exited /\ AllOpen) =>
        /\ status = 42
        /\ pc = "L36"
        /\ trace # <<>>
        /\ trace[Len(trace)] = PrintEv("stdout", "Exiting with code 42")
        /\ ArrivalOf("stdout", "Exiting with code 42\n") > 0

C1_Witness == exited /\ AllOpen /\ status = 42

ExpectedStdout ==
    << "Expected: 5 lines of stdout - 1st set",
       "stdout: Line 1", "stdout: Line 2", "stdout: Line 3",
       "stdout: Line 4", "stdout: Line 5",
       "Expected: 5 interleaved lines of stdout and stderr - 3rd set",
       "stdout: Interleaved Line 1", "stdout: Interleaved Line 2",
       "stdout: Interleaved Line 3", "stdout: Interleaved Line 4",
       "stdout: Interleaved Line 5",
       "Expected: Character by character output with pauses - 4th set",
       "s", "t", "d", "o", "u", "t", ":", " ",
       "C", "h", "a", "r", "a", "c", "t", "e", "r", " ",
       "o", "u", "t", "p", "u", "t", "\n",
       "Exiting with code 42" >>

\* C2: the writes main() makes to standard output are, at every moment, an
\* initial part of the listed sequence (header 1, five lines, header 3, five
\* interleaved lines, header 4, 25 single characters, the exit message), and
\* are the whole of it once line 36 is reached.
C2_StdoutSequence ==
    /\ IsPrefix(Texts("stdout"), ExpectedStdout)
    /\ pc = "L36" => Texts("stdout") = ExpectedStdout

C2_Witness == exited /\ pc = "L36" /\ Len(Texts("stdout")) = 39

ExpectedStderr ==
    << "Expected: 5 lines of stderr - 2nd set",
       "stderr: Line 1", "stderr: Line 2", "stderr: Line 3",
       "stderr: Line 4", "stderr: Line 5",
       "stderr: Interleaved Line 1", "stderr: Interleaved Line 2",
       "stderr: Interleaved Line 3", "stderr: Interleaved Line 4",
       "stderr: Interleaved Line 5",
       "s", "t", "d", "e", "r", "r", ":", " ",
       "C", "h", "a", "r", "a", "c", "t", "e", "r", " ",
       "o", "u", "t", "p", "u", "t", "\n" >>

\* C3: the writes main() makes to standard error are, at every moment, an
\* initial part of the listed sequence (header 2, five lines, five
\* interleaved lines, 25 single characters), and are the whole of it once
\* the last loop is over.
C3_StderrSequence ==
    /\ IsPrefix(Texts("stderr"), ExpectedStderr)
    /\ pc \in {"L35", "L36"} => Texts("stderr") = ExpectedStderr

C3_Witness == ~exited /\ pc = "L35" /\ Len(Texts("stderr")) = 36

\* C4: in the order of main()'s own calls, the print of "stdout: Interleaved
\* Line n" is directly followed by the print of "stderr: Interleaved Line n",
\* that one by the 100 ms pause, and the pause by the next iteration (or by
\* header 4); neither print occurs anywhere else.
C4_InterleaveOrder ==
    \A j \in 1..Len(trace) : \A n \in 1..5 :
        /\ trace[j] = PrintEv("stdout", StdoutInterleaved(n)) =>
              /\ j > 1
              /\ trace[j - 1] = IF n = 1 THEN PrintEv("stdout", Header3)
                                         ELSE SleepEv(100)
              /\ j + 1 <= Len(trace) =>
                     trace[j + 1] = PrintEv("stderr", StderrInterleaved(n))
        /\ trace[j] = PrintEv("stderr", StderrInterleaved(n)) =>
              /\ j > 1
              /\ trace[j - 1] = PrintEv("stdout", StdoutInterleaved(n))
              /\ j + 1 <= Len(trace) => trace[j + 1] = SleepEv(100)
              /\ j + 2 <= Len(trace) =>
                     trace[j + 2] = IF n < 5
                                    THEN PrintEv("stdout", StdoutInterleaved(n + 1))
                                    ELSE PrintEv("stdout", Header4)

C4_Witness ==
    /\ pc = "L27"
    /\ \A n \in 1..5 : \E j \in 1..Len(trace) :
           trace[j] = PrintEv("stderr", StderrInterleaved(n))

\* C5: for a reader of both streams, with both still open, every
\* "stderr: Interleaved Line n" that has arrived was preceded in arrival
\* order by "stdout: Interleaved Line n".
C5_ArrivalOrder ==
    AllOpen =>
        \A n \in 1..5 :
            ArrivalOf("stderr", StderrInterleaved(n) \o "\n") > 0 =>
                /\ ArrivalOf("stdout", StdoutInterleaved(n) \o "\n") > 0
                /\ ArrivalOf("stdout", StdoutInterleaved(n) \o "\n")
                       < ArrivalOf("stderr", StderrInterleaved(n) \o "\n")

\* At a pause of phase 4 on ch, after the cursor's n-th character of chars
PausedAfter(ch, chars, n) ==
    /\ Len(trace) >= 2
    /\ trace[Len(trace) - 1] = WriteEv(ch, chars[n])
    /\ trace[Len(trace)] = FlushEv(ch)
    /\ buf[ch] = <<>>
    /\ Delivered(ch) = Written(ch)
    /\ Singles(Delivered(ch)) = SubSeq(chars, 1, n)

\* C6: at every pause of phase 4 the last two calls were the write of one
\* character and the flush of the same channel, the channel's buffer is
\* empty and its reader has received everything written so far, the
\* phase-4 characters among it being exactly the first k; and no chunk the
\* reader ever receives holds more than one phase-4 character.
C6_FlushedPerCharacter ==
    /\ At("L29") => PausedAfter("stdout", StdoutChars, k)
    /\ At("L33") => PausedAfter("stderr", StderrChars, k)
    /\ \A e \in 1..Len(arrived) : Len(Singles(arrived[e].data)) <= 1

C6_Witness ==
    /\ At("L33")
    /\ k = 25
    /\ mode["stdout"] = "block"
    /\ Len(Singles(Delivered("stdout"))) = 25

\* C7: with standard error closed when line 12 runs, that statement ends
\* the process on the spot with a status that is neither 0 nor 42; a
\* terminated process does nothing more; and a process that exits leaving
\* any written output undelivered has a status that is neither 0 nor 42.
C7_WriteFailureIsFatal ==
    /\ [][(At("L12") /\ ~open["stderr"] /\ trace' # trace) =>
             /\ exited'
             /\ pc' = "L12"
             /\ status' \notin {0, 42}
             /\ trace' = Append(trace, PrintEv("stderr", Header2))]_vars
    /\ [][exited => UNCHANGED vars]_vars
    /\ [](exited /\ (\E ch \in Channels : Delivered(ch) # Written(ch)) =>
             status \notin {0, 42})
    /\ [](exited /\ pc # "L36" => status \notin {0, 42})

C7_Witness ==
    /\ exited
    /\ pc = "L12"
    /\ ~open["stderr"]
    /\ trace[Len(trace)] = PrintEv("stderr", Header2)

\* C8 as stated: a complete run with both streams open emits 21 lines.
C8_TwentyOneLines ==
    (exited /\ status = 42 /\ AllOpen) => LinesOn("stdout") + LinesOn("stderr") = 21

\* C8, amended: a complete run with both streams open emits 27 lines, 15 on
\* standard output and 12 on standard error.
C8_TwentySevenLines ==
    (exited /\ status = 42 /\ AllOpen) =>
        /\ LinesOn("stdout") = 15
        /\ LinesOn("stderr") = 12
        /\ LinesOn("stdout") + LinesOn("stderr") = 27

C8_Witness == exited /\ status = 42 /\ AllOpen /\ LinesOn("stderr") > 0

\* C9 as stated: by the time line 36 is reached the pauses add up to
\* 4000 ms.
C9_FourSeconds == pc = "L36" => TotalSlept = 4000

\* C9, amended: by the time line 36 is reached the pauses add up to 5000 ms:
\* ten of 200 ms, five of 100 ms and fifty of 50 ms.
C9_FiveSeconds ==
    pc = "L36" =>
        /\ TotalSlept = 5000
        /\ Pauses(200) = 10
        /\ Pauses(100) = 5
        /\ Pauses(50) = 50

C9_Witness == At("L36") /\ TotalSlept > 0

\* C10: every step keeps the phase or moves it to the next one, and within
\* a phase neither the line counter nor the character cursor decreases; a
\* running process can always take its next step; and every run ends, with
\* status 42 from line 36 if both streams are still open then.
C10_Progress ==
    /\ [][/\ PhaseOf(pc)' \in {PhaseOf(pc), PhaseOf(pc) + 1}
          /\ PhaseOf(pc)' = PhaseOf(pc) =>
                 /\ LineCounter' >= LineCounter
                 /\ CharCursor' >= CharCursor]_vars
    /\ [](~exited => ENABLED Step)
    /\ <>(exited /\ (AllOpen => (pc = "L36" /\ status = 42)))

C10_Witness == exited /\ AllOpen /\ pc = "L36" /\ PhaseOf(pc) = 5

====
